---- MODULE Spec2Model ----
(***************************************************************************)
(* Order lifecycle of the Buf Barista point of sale: the POS page places   *)
(* orders into the persisted `orders` slot, the Active Orders page loads   *)
(* the slot into an active list (orders) and a historical list (allOrders) *)
(* and writes the active list back after every operation.                  *)
(*                                                                         *)
(* Money is counted in cents, time in seconds.  An optional field of an    *)
(* order (startTime, preparationTime, leadInterest, notes) is a sequence   *)
(* of length 0 (undefined) or 1 (the value).                               *)
(***************************************************************************)
EXTENDS Integers, Sequences, FiniteSets, TLC

\* ------------------------------------------------------------------ bounds
MaxTime == 2
MaxOrderNumber == 2
MaxCartQty == 2
MaxOrders == 2
MaxDialogOrders == 1
MaxLineQuantity == 3
TicksPerDay == 2

\* ------------------------------------------------------------ small inputs
\* menuItems of the POS page, prices in cents
menuItems ==
  << [id |-> 1, name |-> "Espresso", price |-> 250,
       category |-> "Coffee"],
     [id |-> 2, name |-> "Americano", price |-> 300,
       category |-> "Coffee"],
     [id |-> 3, name |-> "Latte", price |-> 350,
       category |-> "Coffee"],
     [id |-> 4, name |-> "Cappuccino", price |-> 350,
       category |-> "Coffee"],
     [id |-> 5, name |-> "Caramel Crunch Crusher", price |-> 450,
       category |-> "Specialty"],
     [id |-> 6, name |-> "Vanilla Dream Latte", price |-> 450,
       category |-> "Specialty"],
     [id |-> 7, name |-> "Hazelnut Heaven Cappuccino", price |-> 450,
       category |-> "Specialty"],
     [id |-> 8, name |-> "Green Tea", price |-> 250,
       category |-> "Tea"],
     [id |-> 9, name |-> "Black Tea", price |-> 250,
       category |-> "Tea"],
     [id |-> 10, name |-> "Chai Tea", price |-> 300,
       category |-> "Tea"],
     [id |-> 11, name |-> "Croissant", price |-> 200,
       category |-> "Pastries"],
     [id |-> 12, name |-> "Flat White", price |-> 350,
       category |-> "Coffee"],
     [id |-> 14, name |-> "Cortado", price |-> 350,
       category |-> "Coffee"] >>
Variants == {"orders.tsx", "part_001"}
Menu ==
  { [id |-> 8, name |-> "Green Tea", price |-> 250,
       category |-> "Tea"],
    [id |-> 11, name |-> "Croissant", price |-> 200,
       category |-> "Pastries"] }
\* what is typed into the customer dialog of the POS page
CustomerInfos ==
  { [firstName |-> "Al", lastInitial |-> "B"],
    [firstName |-> "", lastInitial |-> ""] }
\* what is typed into the Modify Order dialog
NoteTexts == {"no sugar"}
EditedNames == {<<"Cy", "D">>}
ItemUpdates == {[field |-> "quantity", value |-> 3], [field |-> "price", value |-> 100]}
ImportFiles == {"exported", "legacy", "oldestFirst", "noOrdersKey", "notJson"}
\* the orders of a document written before orders carried a startTime
LegacyOrders ==
  << [id |-> 1,
      customerName |-> <<"Al", "B">>,
      items |-> << [id |-> 8, name |-> "Green Tea", quantity |-> 1,
                    price |-> 250] >>,
      timestamp |-> 0,
      status |-> "Pending",
      total |-> [str |-> TRUE, cents |-> 250],
      isComplimentary |-> FALSE,
      queueTime |-> 0,
      startTime |-> <<>>,
      preparationTime |-> <<>>,
      leadInterest |-> <<>>,
      notes |-> <<>>] >>

\* the orders of a document that lists its orders oldest first
OldestFirstOrders ==
  << [LegacyOrders[1] EXCEPT !.timestamp = 0],
     [LegacyOrders[1] EXCEPT !.id = 2, !.timestamp = 1] >>

\* --------------------------------------------------------------- variables
VARIABLES
  variant,              \* which copy of the Active Orders page is deployed
  page,                 \* the mounted page: "pos" or "orders"
  now,                  \* the clock read by new Date()
  exportedFile,         \* the last downloaded buf-barista-data.json
  lsOrders,             \* localStorage 'orders', parsed
  lsOrdersMalformed,    \* localStorage 'orders' holds text JSON.parse rejects
  lsLastOrderNumber,    \* localStorage 'lastOrderNumber' (0: absent)
  lsComplimentaryMode,  \* localStorage 'complimentaryMode'
  cart, runningTotal, orderNumber, isComplimentaryMode, queueStartTime,
  isModalOpen,
  isFlavorModalOpen,    \* POS page: the Select Flavoring dialog is shown
  selectedFlavor,       \* POS page: the flavor picked in it ('' at first)
  selectedCoffeeItem,   \* POS page: empty (null), or the coffee being added
  orders, allOrders,
  selectedOrder, editedItems, orderNotes, showOrderDetails, isEditing,
  showClearConfirmation,
  showResetConfirmation,    \* orders.tsx: the Reset All Data dialog
  showRestartConfirmation,  \* part_001: the Restart Order ID dialog
  error,                    \* the 'Failed to load orders' notice is set
  statusFilter,             \* the status select above the order cards
  sortCriteria,             \* the sort select
  sortDirection,            \* 'desc' or 'asc'
  reportsOrders,            \* Reports page: the orders it fetched
  timeRange,                \* Reports page: the selected time range
  customStartDate,          \* Reports page: empty, or the picked day
  customEndDate,
  dashboardOrders           \* Dashboard page: its `orders` array

flavorVars == <<isFlavorModalOpen, selectedFlavor, selectedCoffeeItem>>
posVars == <<cart, runningTotal, orderNumber, isComplimentaryMode,
             queueStartTime, isModalOpen, flavorVars>>
listVars == <<orders, allOrders>>
dialogVars == <<selectedOrder, editedItems, orderNotes, showOrderDetails,
                isEditing>>
confirmVars == <<showClearConfirmation, showResetConfirmation,
                 showRestartConfirmation>>
viewVars == <<statusFilter, sortCriteria, sortDirection>>
reportVars == <<reportsOrders, timeRange, customStartDate, customEndDate,
                dashboardOrders>>
pageVars == <<listVars, dialogVars, confirmVars, error, viewVars,
              reportVars>>
storeVars == <<lsOrders, lsOrdersMalformed, lsLastOrderNumber,
               lsComplimentaryMode>>
envVars == <<variant, page, now, exportedFile>>
vars == <<envVars, storeVars, posVars, pageVars>>

\* ----------------------------------------------------------------- helpers
Range(s) == { s[i] : i \in DOMAIN s }

RECURSIVE SumSeq(_)
SumSeq(s) == IF s = <<>> THEN 0 ELSE Head(s) + SumSeq(Tail(s))

\* Array.prototype.filter((_, i) => i !== index)
RemoveAt(s, index) ==
  [i \in 1..(Len(s) - 1) |-> IF i < index THEN s[i] ELSE s[i + 1]]

\* a number, as `reduce` leaves it / a string, as toFixed(2) leaves it
NumberTotal(cents) == [str |-> FALSE, cents |-> cents]
StringTotal(cents) == [str |-> TRUE, cents |-> cents]

\* items.reduce((sum, item) => sum + item.price * item.quantity, 0)
calculateTotal(items) ==
  SumSeq([i \in DOMAIN items |-> items[i].price * items[i].quantity])

\* ---------------------------------------------------------------- POS page
\* calculateTotal of the POS page: 0 in complimentary mode, else toFixed(2)
PosCalculateTotal ==
  IF isComplimentaryMode
  THEN NumberTotal(0)
  ELSE StringTotal(calculateTotal(cart))

CartQty == SumSeq([i \in DOMAIN cart |-> cart[i].quantity])

\* the initial values of the flavor hooks
FlavorModalClosed ==
  /\ isFlavorModalOpen' = FALSE
  /\ selectedFlavor' = ""
  /\ selectedCoffeeItem' = <<>>

\* the state of a page that is not mounted
PosUnmounted ==
  /\ FlavorModalClosed
  /\ cart' = <<>>
  /\ runningTotal' = 0
  /\ orderNumber' = 1
  /\ isComplimentaryMode' = TRUE
  /\ queueStartTime' = 0
  /\ isModalOpen' = FALSE

DialogsClosed ==
  /\ selectedOrder' = <<>>
  /\ editedItems' = <<>>
  /\ orderNotes' = ""
  /\ showOrderDetails' = FALSE
  /\ isEditing' = FALSE
  /\ showClearConfirmation' = FALSE
  /\ showResetConfirmation' = FALSE
  /\ showRestartConfirmation' = FALSE
  /\ statusFilter' = "All"
  /\ sortCriteria' = "timestamp"
  /\ sortDirection' = "desc"

\* the Reports page and the Dashboard page are not mounted: their hooks hold
\* their initial values
ReportsUnmounted ==
  /\ reportsOrders' = <<>>
  /\ timeRange' = "week"
  /\ customStartDate' = <<>>
  /\ customEndDate' = <<>>
  /\ dashboardOrders' = <<>>

\* MountPos starting every session at order number 1
MountPos_ignoresCounter ==
  /\ page # "pos"
  /\ page' = "pos"
  /\ orderNumber' = 1
  /\ isComplimentaryMode' = lsComplimentaryMode
  /\ queueStartTime' = now
  /\ cart' = <<>>
  /\ runningTotal' = 0
  /\ isModalOpen' = FALSE
  /\ FlavorModalClosed
  /\ orders' = <<>>
  /\ allOrders' = <<>>
  /\ error' = FALSE
  /\ DialogsClosed
  /\ ReportsUnmounted
  /\ UNCHANGED <<variant, now, exportedFile, storeVars>>

\* the first effect of the POS page, run when the page mounts
MountPos ==
  /\ page # "pos"
  /\ page' = "pos"
  /\ orderNumber' = IF lsLastOrderNumber # 0 THEN lsLastOrderNumber + 1 ELSE 1
  /\ isComplimentaryMode' = lsComplimentaryMode
  /\ queueStartTime' = now
  /\ cart' = <<>>
  /\ runningTotal' = 0
  /\ isModalOpen' = FALSE
  /\ FlavorModalClosed
  /\ orders' = <<>>
  /\ allOrders' = <<>>
  /\ error' = FALSE
  /\ DialogsClosed
  /\ ReportsUnmounted
  /\ UNCHANGED <<variant, now, exportedFile, storeVars>>

\* the POS page is reloaded in the browser: its state is rebuilt and the
\* mount effect runs again
ReloadPos ==
  /\ page = "pos"
  /\ orderNumber' = IF lsLastOrderNumber # 0 THEN lsLastOrderNumber + 1 ELSE 1
  /\ isComplimentaryMode' = lsComplimentaryMode
  /\ queueStartTime' = now
  /\ cart' = <<>>
  /\ runningTotal' = 0
  /\ isModalOpen' = FALSE
  /\ FlavorModalClosed
  /\ UNCHANGED <<envVars, storeVars, pageVars>>

\* the complimentary-mode switch and the effect that persists it
ToggleComplimentaryMode ==
  /\ page = "pos"
  /\ ~isModalOpen
  /\ ~isFlavorModalOpen
  /\ isComplimentaryMode' = ~isComplimentaryMode
  /\ lsComplimentaryMode' = ~isComplimentaryMode
  /\ UNCHANGED <<envVars, lsOrders, lsOrdersMalformed, lsLastOrderNumber,
                 cart, runningTotal, orderNumber, queueStartTime, isModalOpen,
                 flavorVars, pageVars>>

\* a cart line: { ...item, flavor, quantity: 1 }; flavor is empty for null
CartLine(item, flavor) ==
  [id |-> item.id, name |-> item.name, price |-> item.price,
   category |-> item.category, flavor |-> flavor, quantity |-> 1]

\* the setCart updater shared by addToCart and confirmFlavorSelection: the
\* line with the same id and flavor gains one, or a new line is appended
CartWith(prevCart, item, flavor) ==
  IF \E i \in DOMAIN prevCart :
       prevCart[i].id = item.id /\ prevCart[i].flavor = flavor
  THEN [i \in DOMAIN prevCart |->
          IF prevCart[i].id = item.id /\ prevCart[i].flavor = flavor
          THEN [prevCart[i] EXCEPT !.quantity = @ + 1]
          ELSE prevCart[i]]
  ELSE Append(prevCart, CartLine(item, flavor))

\* a coffee only opens the Select Flavoring dialog; anything else goes to
\* the cart with flavor null
addToCart(item) ==
  /\ page = "pos"
  /\ ~isModalOpen
  /\ ~isFlavorModalOpen
  /\ IF item.category = "Coffee"
     THEN /\ selectedCoffeeItem' = <<item>>
          /\ selectedFlavor' = ""
          /\ isFlavorModalOpen' = TRUE
          /\ UNCHANGED <<cart, runningTotal>>
     ELSE /\ CartQty < MaxCartQty
          /\ cart' = CartWith(cart, item, <<>>)
          /\ runningTotal' = runningTotal + item.price
          /\ UNCHANGED flavorVars
  /\ UNCHANGED <<envVars, storeVars, orderNumber, isComplimentaryMode,
                 queueStartTime, isModalOpen, pageVars>>

handlePlaceOrder ==
  /\ page = "pos"
  /\ ~isModalOpen
  /\ ~isFlavorModalOpen
  /\ cart # <<>>
  /\ isModalOpen' = TRUE
  /\ UNCHANGED <<envVars, storeVars, cart, runningTotal, orderNumber,
                 isComplimentaryMode, queueStartTime, flavorVars, pageVars>>

\* the order confirmOrder builds
NewOrder(customerInfo) ==
  [id |-> orderNumber,
   customerName |-> <<customerInfo.firstName, customerInfo.lastInitial>>,
   items |-> cart,
   timestamp |-> now,
   status |-> "Pending",
   total |-> PosCalculateTotal,
   isComplimentary |-> isComplimentaryMode,
   queueTime |-> now - queueStartTime,
   startTime |-> <<now>>,
   preparationTime |-> <<>>,
   leadInterest |-> <<>>,
   notes |-> <<>>]

\* confirmOrder with the customer data typed into the dialog; it returns early
\* without a name, and JSON.parse throws on a malformed slot before any write
confirmOrder(customerInfo) ==
  /\ page = "pos"
  /\ isModalOpen
  /\ orderNumber <= MaxOrderNumber
  /\ Len(lsOrders) < MaxOrders
  /\ customerInfo.firstName # "" /\ customerInfo.lastInitial # ""
  /\ ~lsOrdersMalformed
  /\ lsOrders' = <<NewOrder(customerInfo)>> \o lsOrders
  /\ lsLastOrderNumber' = orderNumber
  /\ cart' = <<>>
  /\ orderNumber' = orderNumber + 1
  /\ queueStartTime' = now
  /\ runningTotal' = 0
  /\ isModalOpen' = FALSE
  /\ UNCHANGED <<envVars, lsOrdersMalformed, lsComplimentaryMode,
                 isComplimentaryMode, flavorVars, pageVars>>

\* the customer dialog is dismissed (also the way out when confirmOrder
\* returned early or threw)
closeModal ==
  /\ page = "pos"
  /\ isModalOpen
  /\ isModalOpen' = FALSE
  /\ UNCHANGED <<envVars, storeVars, cart, runningTotal, orderNumber,
                 isComplimentaryMode, queueStartTime, flavorVars, pageVars>>

\* a flavor button of the Select Flavoring dialog
setSelectedFlavor(flavor) ==
  /\ page = "pos"
  /\ isFlavorModalOpen
  /\ selectedFlavor' = flavor
  /\ UNCHANGED <<envVars, storeVars, cart, runningTotal, orderNumber,
                 isComplimentaryMode, queueStartTime, isModalOpen,
                 isFlavorModalOpen, selectedCoffeeItem, pageVars>>

\* the Cancel button of the Select Flavoring dialog
CancelFlavorSelection ==
  /\ page = "pos"
  /\ isFlavorModalOpen
  /\ isFlavorModalOpen' = FALSE
  /\ UNCHANGED <<envVars, storeVars, cart, runningTotal, orderNumber,
                 isComplimentaryMode, queueStartTime, isModalOpen,
                 selectedFlavor, selectedCoffeeItem, pageVars>>

\* Add to Cart in the Select Flavoring dialog (disabled until a flavor is
\* picked): 'No Flavoring' becomes null, the line with the same id and
\* flavor gains one or a new line is appended, and the dialog closes
confirmFlavorSelection ==
  /\ page = "pos"
  /\ isFlavorModalOpen
  /\ selectedFlavor # ""
  /\ IF selectedCoffeeItem # <<>>
     THEN /\ CartQty < MaxCartQty
          /\ LET flavor == IF selectedFlavor = "No Flavoring"
                           THEN <<>>
                           ELSE <<selectedFlavor>>
             IN  cart' = CartWith(cart, selectedCoffeeItem[1], flavor)
          /\ runningTotal' = runningTotal + selectedCoffeeItem[1].price
          /\ isFlavorModalOpen' = FALSE
     ELSE UNCHANGED <<cart, runningTotal, isFlavorModalOpen>>
  /\ UNCHANGED <<envVars, storeVars, orderNumber, isComplimentaryMode,
                 queueStartTime, isModalOpen, selectedFlavor,
                 selectedCoffeeItem, pageVars>>

\* removeFromCart keeping a line whose quantity reached zero
removeFromCart_keepsEmptyLine(index) ==
  /\ page = "pos"
  /\ ~isModalOpen
  /\ ~isFlavorModalOpen
  /\ index \in DOMAIN cart
  /\ cart' = [cart EXCEPT ![index].quantity = @ - 1]
  /\ runningTotal' = runningTotal - cart[index].price
  /\ UNCHANGED <<envVars, storeVars, orderNumber, isComplimentaryMode,
                 queueStartTime, isModalOpen, flavorVars, pageVars>>

\* the minus button and the X button of a cart line: one unit less, and the
\* line is spliced out when it held one unit; the updater also takes the
\* price off the running total
removeFromCart(index) ==
  /\ page = "pos"
  /\ ~isModalOpen
  /\ ~isFlavorModalOpen
  /\ index \in DOMAIN cart
  /\ cart' = IF cart[index].quantity > 1
             THEN [cart EXCEPT ![index].quantity = @ - 1]
             ELSE RemoveAt(cart, index)
  /\ runningTotal' = runningTotal - cart[index].price
  /\ UNCHANGED <<envVars, storeVars, orderNumber, isComplimentaryMode,
                 queueStartTime, isModalOpen, flavorVars, pageVars>>

\* the plus button of a cart line
increaseQuantity(index) ==
  /\ page = "pos"
  /\ ~isModalOpen
  /\ ~isFlavorModalOpen
  /\ index \in DOMAIN cart
  /\ CartQty < MaxCartQty
  /\ cart' = [cart EXCEPT ![index].quantity = @ + 1]
  /\ runningTotal' = runningTotal + cart[index].price
  /\ UNCHANGED <<envVars, storeVars, orderNumber, isComplimentaryMode,
                 queueStartTime, isModalOpen, flavorVars, pageVars>>

Tick ==
  /\ now < MaxTime
  /\ now' = now + 1
  /\ UNCHANGED <<variant, page, exportedFile, storeVars, posVars, pageVars>>

\* ------------------------------------------------------ Active Orders page
\* no modal covers the page (.modal is position: fixed over the whole window)
NoModal ==
  /\ ~showClearConfirmation
  /\ ~showResetConfirmation
  /\ ~showRestartConfirmation
  /\ ~(showOrderDetails /\ selectedOrder # <<>>)

\* the values of the status select
StatusFilters == {"All", "Pending", "In Progress", "Completed"}

\* the values of the sort select
SortCriterias == {"timestamp", "preparationTime", "queueTime"}

\* the value the comparator of filterAndSortOrders subtracts
SortKey(order) ==
  CASE sortCriteria = "timestamp" -> order.timestamp
    [] sortCriteria = "preparationTime" ->
         IF order.preparationTime = <<>> THEN 0 ELSE order.preparationTime[1]
    [] sortCriteria = "queueTime" -> order.queueTime
    [] OTHER -> 0

RECURSIVE SortedDesc(_)
\* [...list].sort((a, b) => key(b) - key(a)): descending, and stable
SortedDesc(list) ==
  IF list = <<>>
  THEN <<>>
  ELSE LET rest == SortedDesc(Tail(list))
           before == Cardinality({ i \in DOMAIN rest :
                                    SortKey(rest[i]) > SortKey(Head(list)) })
       IN SubSeq(rest, 1, before) \o <<Head(list)>>
            \o SubSeq(rest, before + 1, Len(rest))

\* Array.prototype.reverse
Reversed(list) == [i \in 1..Len(list) |-> list[Len(list) + 1 - i]]

\* the status filter of filterAndSortOrders (the search filters stay empty)
PassesFilter(order) == statusFilter = "All" \/ order.status = statusFilter

\* filteredOrders, the list the cards are rendered from: the effect running
\* filterAndSortOrders follows every change of orders and of the controls
filterAndSortOrders ==
  LET sorted == SortedDesc(SelectSeq(orders, PassesFilter))
  IN IF sortDirection = "asc" THEN Reversed(sorted) ELSE sorted

\* the card of the order at position i of the active list can be clicked
Shown(i) ==
  /\ page = "orders"
  /\ NoModal
  /\ i \in DOMAIN orders
  /\ PassesFilter(orders[i])

\* the status select
setStatusFilter(value) ==
  /\ page = "orders"
  /\ NoModal
  /\ statusFilter' = value
  /\ UNCHANGED <<envVars, storeVars, posVars, listVars, dialogVars,
                 confirmVars, error, sortCriteria, sortDirection,
                 reportVars>>

\* the sort select
setSortCriteria(value) ==
  /\ page = "orders"
  /\ NoModal
  /\ sortCriteria' = value
  /\ UNCHANGED <<envVars, storeVars, posVars, listVars, dialogVars,
                 confirmVars, error, statusFilter, sortDirection,
                 reportVars>>

\* the sort direction button
toggleSortDirection ==
  /\ page = "orders"
  /\ NoModal
  /\ sortDirection' = IF sortDirection = "asc" THEN "desc" ELSE "asc"
  /\ UNCHANGED <<envVars, storeVars, posVars, listVars, dialogVars,
                 confirmVars, error, statusFilter, sortCriteria,
                 reportVars>>

\* the order-actions block is rendered only while status !== 'Completed'
ActionsShown(i) == Shown(i) /\ orders[i].status # "Completed"

\* the Modify Order dialog is open
DialogShown == page = "orders" /\ showOrderDetails /\ selectedOrder # <<>>

\* every handler below ends with setOrders, setAllOrders and
\* localStorage.setItem('orders', JSON.stringify(...))
WriteLists(newOrders, newAllOrders, stored) ==
  /\ orders' = newOrders
  /\ allOrders' = newAllOrders
  /\ lsOrders' = stored
  /\ lsOrdersMalformed' = FALSE

\* loadOrders on the mounted page
loadOrders ==
  IF lsOrdersMalformed
  THEN /\ error' = TRUE
       /\ UNCHANGED listVars
  ELSE /\ error' = FALSE
       /\ orders' = lsOrders
       /\ allOrders' = lsOrders

\* the page mounts and its effect runs loadOrders
MountOrders ==
  /\ page # "orders"
  /\ ~isModalOpen
  /\ page' = "orders"
  /\ IF lsOrdersMalformed
     THEN error' = TRUE /\ orders' = <<>> /\ allOrders' = <<>>
     ELSE error' = FALSE /\ orders' = lsOrders /\ allOrders' = lsOrders
  /\ DialogsClosed
  /\ ReportsUnmounted
  /\ PosUnmounted
  /\ UNCHANGED <<variant, now, exportedFile, storeVars>>

\* part_001: the Refresh Orders button
RefreshButton ==
  /\ variant = "part_001"
  /\ page = "orders"
  /\ NoModal
  /\ loadOrders
  /\ UNCHANGED <<envVars, storeVars, posVars, dialogVars, confirmVars,
                 viewVars,
                 reportVars>>

\* StatusUpdated with the two times of the subtraction exchanged
StatusUpdated_exchangedTimes(order, newStatus) ==
  IF newStatus = "Completed" /\ order.startTime # <<>>
  THEN [order EXCEPT !.status = newStatus,
                     !.preparationTime = <<order.startTime[1] - now>>]
  ELSE [order EXCEPT !.status = newStatus]

\* one order as the map callback of updateOrderStatus leaves it
StatusUpdated(order, newStatus) ==
  IF newStatus = "Completed" /\ order.startTime # <<>>
  THEN [order EXCEPT !.status = newStatus,
                     !.preparationTime = <<now - order.startTime[1]>>]
  ELSE [order EXCEPT !.status = newStatus]

updateOrderStatus(orderId, newStatus) ==
  LET updatedOrders ==
        [k \in DOMAIN orders |->
           IF orders[k].id = orderId
           THEN StatusUpdated(orders[k], newStatus)
           ELSE orders[k]]
  IN /\ WriteLists(updatedOrders, updatedOrders, updatedOrders)
     /\ UNCHANGED <<envVars, lsLastOrderNumber, lsComplimentaryMode, posVars,
                    dialogVars, confirmVars, error, viewVars,
                 reportVars>>

\* the Start button: disabled while the order is In Progress
StartButton(i) ==
  /\ ActionsShown(i)
  /\ orders[i].status # "In Progress"
  /\ updateOrderStatus(orders[i].id, "In Progress")

\* the Complete button
CompleteButton(i) ==
  /\ ActionsShown(i)
  /\ updateOrderStatus(orders[i].id, "Completed")

recordLeadInterest(orderId, interested) ==
  LET updatedOrders ==
        [k \in DOMAIN orders |->
           IF orders[k].id = orderId
           THEN [orders[k] EXCEPT !.leadInterest = <<interested>>]
           ELSE orders[k]]
  IN /\ WriteLists(updatedOrders, updatedOrders, updatedOrders)
     /\ UNCHANGED <<envVars, lsLastOrderNumber, lsComplimentaryMode, posVars,
                    dialogVars, confirmVars, error, viewVars,
                 reportVars>>

\* the Yes / No buttons, offered for a Completed order without leadInterest
LeadButton(i, interested) ==
  /\ Shown(i)
  /\ orders[i].status = "Completed"
  /\ orders[i].leadInterest = <<>>
  /\ recordLeadInterest(orders[i].id, interested)

\* cancelOrder persisting the historical list instead of the active one
cancelOrder_storesHistory(orderId, confirmed) ==
  IF confirmed
  THEN LET NotIt(order) == order.id # orderId
           updatedOrders == SelectSeq(orders, NotIt)
           updatedAllOrders ==
             [k \in DOMAIN allOrders |->
                IF allOrders[k].id = orderId
                THEN [allOrders[k] EXCEPT !.status = "Cancelled"]
                ELSE allOrders[k]]
       IN /\ WriteLists(updatedOrders, updatedAllOrders, updatedAllOrders)
          /\ UNCHANGED <<envVars, lsLastOrderNumber, lsComplimentaryMode,
                         posVars, dialogVars, confirmVars, error, viewVars,
                         reportVars>>
  ELSE UNCHANGED vars

\* orders.tsx: updateOrderNotes, a handler of the page that none of its
\* buttons is bound to
updateOrderNotes(orderId, notes) ==
  LET updatedOrders ==
        [k \in DOMAIN orders |->
           IF orders[k].id = orderId
           THEN [orders[k] EXCEPT !.notes = <<notes>>]
           ELSE orders[k]]
  IN /\ WriteLists(updatedOrders, updatedOrders, updatedOrders)
     /\ UNCHANGED <<envVars, lsLastOrderNumber, lsComplimentaryMode, posVars,
                    dialogVars, confirmVars, error, viewVars, reportVars>>

\* cancelOrder with the answer given to window.confirm
cancelOrder(orderId, confirmed) ==
  IF confirmed
  THEN LET NotIt(order) == order.id # orderId
           updatedOrders == SelectSeq(orders, NotIt)
           updatedAllOrders ==
             [k \in DOMAIN allOrders |->
                IF allOrders[k].id = orderId
                THEN [allOrders[k] EXCEPT !.status = "Cancelled"]
                ELSE allOrders[k]]
       IN /\ WriteLists(updatedOrders, updatedAllOrders, updatedOrders)
          /\ UNCHANGED <<envVars, lsLastOrderNumber, lsComplimentaryMode,
                         posVars, dialogVars, confirmVars, error, viewVars,
                 reportVars>>
  ELSE UNCHANGED vars

\* the Cancel button's disabled attribute
CancelDisabled(order) == order.status # "Pending"

\* the Cancel button
CancelButton(i, confirmed) ==
  /\ ActionsShown(i)
  /\ ~CancelDisabled(orders[i])
  /\ cancelOrder(orders[i].id, confirmed)

\* orders.find((order) => order.id === orderId)
FindOrder(orderId) ==
  orders[CHOOSE k \in DOMAIN orders :
           /\ orders[k].id = orderId
           /\ \A j \in 1..(k - 1) : orders[j].id # orderId]

\* order.notes || ''
NotesOrEmpty(order) == IF order.notes = <<>> THEN "" ELSE order.notes[1]

modifyOrder(orderId) ==
  LET orderToModify == FindOrder(orderId)
  IN /\ selectedOrder' = <<orderToModify>>
     /\ showOrderDetails' = TRUE
     /\ IF variant = "orders.tsx"
        THEN /\ editedItems' = orderToModify.items
             /\ orderNotes' = NotesOrEmpty(orderToModify)
             /\ isEditing' = TRUE
        ELSE UNCHANGED <<editedItems, orderNotes, isEditing>>
     /\ UNCHANGED <<envVars, storeVars, posVars, listVars, confirmVars, error,
                    viewVars,
                 reportVars>>

\* the Modify button's disabled attribute, in each copy of the page
ModifyDisabled(order) ==
  IF variant = "orders.tsx"
  THEN order.status = "Completed"
  ELSE order.status # "Pending"

\* the Modify button
ModifyButton(i) ==
  /\ ActionsShown(i)
  /\ ~ModifyDisabled(orders[i])
  /\ modifyOrder(orders[i].id)

\* orders.tsx: the pencil next to Notes, on every order card
toggleEditNotes(i) ==
  /\ variant = "orders.tsx"
  /\ Shown(i)
  /\ LET order == FindOrder(orders[i].id)
     IN /\ selectedOrder' = <<order>>
        /\ orderNotes' = NotesOrEmpty(order)
        /\ showOrderDetails' = TRUE
  /\ UNCHANGED <<envVars, storeVars, posVars, listVars, editedItems,
                 isEditing, confirmVars, error, viewVars,
                 reportVars>>

\* the Customer Name input of the dialog (both copies of the page)
SetCustomerName(name) ==
  /\ DialogShown
  /\ selectedOrder' = <<[selectedOrder[1] EXCEPT !.customerName = name]>>
  /\ UNCHANGED <<envVars, storeVars, posVars, listVars, editedItems,
                 orderNotes, showOrderDetails, isEditing, confirmVars, error,
                 viewVars,
                 reportVars>>

\* orders.tsx: the Order Notes textarea
SetOrderNotes(text) ==
  /\ variant = "orders.tsx"
  /\ DialogShown
  /\ orderNotes' = text
  /\ UNCHANGED <<envVars, storeVars, posVars, listVars, selectedOrder,
                 editedItems, showOrderDetails, isEditing, confirmVars, error,
                 viewVars,
                 reportVars>>

\* { ...item, ...updates }
ItemUpdated(item, update) ==
  IF update.field = "quantity"
  THEN [item EXCEPT !.quantity = update.value]
  ELSE [item EXCEPT !.price = update.value]

\* orders.tsx: updateOrderItem, called by the inputs of row `row` of the
\* dialog (the rows show editedItems) with that row's item id
updateOrderItem(row, update) ==
  /\ variant = "orders.tsx"
  /\ DialogShown
  /\ row \in DOMAIN editedItems
  /\ LET itemId == editedItems[row].id
         old == selectedOrder[1]
         updatedItems ==
           [k \in DOMAIN old.items |->
              IF old.items[k].id = itemId
              THEN ItemUpdated(old.items[k], update)
              ELSE old.items[k]]
         newTotal == NumberTotal(calculateTotal(updatedItems))
     IN selectedOrder' =
          <<[old EXCEPT !.items = updatedItems, !.total = newTotal]>>
  /\ UNCHANGED <<envVars, storeVars, posVars, listVars, editedItems,
                 orderNotes, showOrderDetails, isEditing, confirmVars, error,
                 viewVars,
                 reportVars>>

\* orders.tsx: the remove-item button of row `row`
RemoveItemButton(row) ==
  /\ variant = "orders.tsx"
  /\ DialogShown
  /\ row \in DOMAIN editedItems
  /\ editedItems' = RemoveAt(editedItems, row)
  /\ UNCHANGED <<envVars, storeVars, posVars, listVars, selectedOrder,
                 orderNotes, showOrderDetails, isEditing, confirmVars, error,
                 viewVars,
                 reportVars>>

\* ModifiedOrder without the recomputed total
ModifiedOrder_keepsTotal ==
  IF variant = "orders.tsx"
  THEN [selectedOrder[1] EXCEPT
          !.items = editedItems,
          !.notes = <<orderNotes>>]
  ELSE selectedOrder[1]

\* the order the Save Changes button stores
ModifiedOrder ==
  IF variant = "orders.tsx"
  THEN [selectedOrder[1] EXCEPT
          !.items = editedItems,
          !.notes = <<orderNotes>>,
          !.total = NumberTotal(calculateTotal(editedItems))]
  ELSE selectedOrder[1]

\* the Save Changes button of the dialog
saveModifiedOrder ==
  /\ DialogShown
  /\ LET modifiedOrder == ModifiedOrder
         updatedOrders ==
           [k \in DOMAIN orders |->
              IF orders[k].id = modifiedOrder.id
              THEN modifiedOrder
              ELSE orders[k]]
     IN WriteLists(updatedOrders, updatedOrders, updatedOrders)
  /\ showOrderDetails' = FALSE
  /\ selectedOrder' = <<>>
  /\ IF variant = "orders.tsx" THEN isEditing' = FALSE ELSE UNCHANGED isEditing
  /\ UNCHANGED <<envVars, lsLastOrderNumber, lsComplimentaryMode, posVars,
                 editedItems, orderNotes, confirmVars, error, viewVars,
                 reportVars>>

\* the Cancel button of the dialog
CancelDialog ==
  /\ DialogShown
  /\ showOrderDetails' = FALSE
  /\ IF variant = "orders.tsx"
     THEN selectedOrder' = <<>> /\ isEditing' = FALSE
     ELSE UNCHANGED <<selectedOrder, isEditing>>
  /\ UNCHANGED <<envVars, storeVars, posVars, listVars, editedItems,
                 orderNotes, confirmVars, error, viewVars,
                 reportVars>>

clearAllOrders ==
  /\ page = "orders"
  /\ NoModal
  /\ showClearConfirmation' = TRUE
  /\ UNCHANGED <<envVars, storeVars, posVars, listVars, dialogVars,
                 showResetConfirmation, showRestartConfirmation, error,
                 viewVars,
                 reportVars>>

\* clearedOrders with the test on the active ids left out
clearedOrders_everyOrder ==
  [k \in DOMAIN allOrders |-> [allOrders[k] EXCEPT !.status = "Cleared"]]

\* the historical list with the orders of the active list marked Cleared
clearedOrders ==
  [k \in DOMAIN allOrders |->
     IF \E a \in DOMAIN orders : orders[a].id = allOrders[k].id
     THEN [allOrders[k] EXCEPT !.status = "Cleared"]
     ELSE allOrders[k]]

\* confirmClearAllOrders storing the cleared history instead of []
confirmClearAllOrders_storesHistory ==
  /\ page = "orders"
  /\ showClearConfirmation
  /\ WriteLists(<<>>, clearedOrders, clearedOrders)
  /\ showClearConfirmation' = FALSE
  /\ UNCHANGED <<envVars, lsLastOrderNumber, lsComplimentaryMode, posVars,
                 dialogVars, showResetConfirmation, showRestartConfirmation,
                 error, viewVars,
                 reportVars>>

confirmClearAllOrders ==
  /\ page = "orders"
  /\ showClearConfirmation
  /\ WriteLists(<<>>, clearedOrders, <<>>)
  /\ showClearConfirmation' = FALSE
  /\ UNCHANGED <<envVars, lsLastOrderNumber, lsComplimentaryMode, posVars,
                 dialogVars, showResetConfirmation, showRestartConfirmation,
                 error, viewVars,
                 reportVars>>

cancelClearAllOrders ==
  /\ page = "orders"
  /\ showClearConfirmation
  /\ showClearConfirmation' = FALSE
  /\ UNCHANGED <<envVars, storeVars, posVars, listVars, dialogVars,
                 showResetConfirmation, showRestartConfirmation, error,
                 viewVars,
                 reportVars>>

\* part_001: the Restart Order ID button and its dialog
restartOrderId ==
  /\ variant = "part_001"
  /\ page = "orders"
  /\ NoModal
  /\ showRestartConfirmation' = TRUE
  /\ UNCHANGED <<envVars, storeVars, posVars, listVars, dialogVars,
                 showClearConfirmation, showResetConfirmation, error,
                 viewVars,
                 reportVars>>

\* orders.map((order, index) => ({ ...order, id: index + 1 }))
Renumbered(list) == [k \in DOMAIN list |-> [list[k] EXCEPT !.id = k]]

confirmRestartOrderId ==
  /\ page = "orders"
  /\ showRestartConfirmation
  /\ WriteLists(Renumbered(orders), Renumbered(allOrders), Renumbered(orders))
  /\ showRestartConfirmation' = FALSE
  /\ UNCHANGED <<envVars, lsLastOrderNumber, lsComplimentaryMode, posVars,
                 dialogVars, showClearConfirmation, showResetConfirmation,
                 error, viewVars,
                 reportVars>>

cancelRestartOrderId ==
  /\ page = "orders"
  /\ showRestartConfirmation
  /\ showRestartConfirmation' = FALSE
  /\ UNCHANGED <<envVars, storeVars, posVars, listVars, dialogVars,
                 showClearConfirmation, showResetConfirmation, error,
                 viewVars,
                 reportVars>>

\* orders.tsx: the Reset All Data button and its dialog
resetAllData ==
  /\ variant = "orders.tsx"
  /\ page = "orders"
  /\ NoModal
  /\ showResetConfirmation' = TRUE
  /\ UNCHANGED <<envVars, storeVars, posVars, listVars, dialogVars,
                 showClearConfirmation, showRestartConfirmation, error,
                 viewVars,
                 reportVars>>

\* localStorage.clear(), then window.location.reload() mounts the page anew
confirmResetAllData ==
  /\ page = "orders"
  /\ showResetConfirmation
  /\ lsOrders' = <<>>
  /\ lsOrdersMalformed' = FALSE
  /\ lsLastOrderNumber' = 0
  /\ lsComplimentaryMode' = TRUE
  /\ orders' = <<>>
  /\ allOrders' = <<>>
  /\ error' = FALSE
  /\ DialogsClosed
  /\ ReportsUnmounted
  /\ UNCHANGED <<envVars, posVars>>

cancelResetAllData ==
  /\ page = "orders"
  /\ showResetConfirmation
  /\ showResetConfirmation' = FALSE
  /\ UNCHANGED <<envVars, storeVars, posVars, listVars, dialogVars,
                 showClearConfirmation, showRestartConfirmation, error,
                 viewVars,
                 reportVars>>

\* orders.tsx: Export Data downloads { orders: allOrders, ... }
exportData ==
  /\ variant = "orders.tsx"
  /\ page = "orders"
  /\ NoModal
  /\ exportedFile' = [present |-> TRUE, orders |-> allOrders]
  /\ UNCHANGED <<variant, page, now, storeVars, posVars, pageVars>>

\* the `orders` of the document in the picked file
FileOrders(file) ==
  CASE file = "exported" -> exportedFile.orders
    [] file = "oldestFirst" -> OldestFirstOrders
    [] OTHER -> LegacyOrders

\* orders.tsx: Import Data with the file the user picks: the last export, an
\* older document, a JSON document without an `orders` key, or a file that is
\* not JSON
importData(file) ==
  /\ variant = "orders.tsx"
  /\ page = "orders"
  /\ NoModal
  /\ \/ /\ file \in {"exported", "legacy", "oldestFirst"}
        /\ file = "exported" => exportedFile.present
        /\ lsOrders' = FileOrders(file)
        /\ lsOrdersMalformed' = FALSE
        /\ orders' = FileOrders(file)
        /\ allOrders' = FileOrders(file)
        /\ error' = FALSE
     \/ /\ file = "noOrdersKey"
        \* JSON.stringify(undefined) is undefined: the slot gets 'undefined'
        /\ lsOrders' = <<>>
        /\ lsOrdersMalformed' = TRUE
        /\ error' = TRUE
        /\ UNCHANGED listVars
     \/ /\ file = "notJson"
        /\ UNCHANGED <<lsOrders, lsOrdersMalformed, listVars, error>>
  /\ UNCHANGED <<envVars, lsLastOrderNumber, lsComplimentaryMode, posVars,
                 dialogVars, confirmVars, viewVars,
                 reportVars>>

\* ------------------------------------------------------------ specification
Init ==
  /\ variant \in Variants
  /\ page = "pos"
  /\ now = 0
  /\ exportedFile = [present |-> FALSE, orders |-> <<>>]
  /\ lsOrders = <<>>
  /\ lsOrdersMalformed = FALSE
  /\ lsLastOrderNumber = 0
  /\ lsComplimentaryMode = TRUE
  /\ cart = <<>>
  /\ runningTotal = 0
  /\ orderNumber = 1
  /\ isComplimentaryMode = TRUE
  /\ queueStartTime = 0
  /\ isModalOpen = FALSE
  /\ isFlavorModalOpen = FALSE
  /\ selectedFlavor = ""
  /\ selectedCoffeeItem = <<>>
  /\ orders = <<>>
  /\ allOrders = <<>>
  /\ selectedOrder = <<>>
  /\ editedItems = <<>>
  /\ orderNotes = ""
  /\ showOrderDetails = FALSE
  /\ isEditing = FALSE
  /\ showClearConfirmation = FALSE
  /\ showResetConfirmation = FALSE
  /\ showRestartConfirmation = FALSE
  /\ error = FALSE
  /\ statusFilter = "All"
  /\ sortCriteria = "timestamp"
  /\ sortDirection = "desc"
  /\ reportsOrders = <<>>
  /\ timeRange = "week"
  /\ customStartDate = <<>>
  /\ customEndDate = <<>>
  /\ dashboardOrders = <<>>

Positions == 1..MaxOrders
Menu1 == {[id |-> 8, name |-> "Green Tea", price |-> 250,
           category |-> "Tea"]}

\* an order of a single item
addFirstItem(item) == cart = <<>> /\ addToCart(item)

\* the order lifecycle: placing, the status buttons, lead interest, cancel,
\* clear-all, the ID restart and the refresh
Next ==
  \/ MountPos
  \/ ReloadPos
  \/ MountOrders
  \/ \E item \in Menu1 : addFirstItem(item)
  \/ handlePlaceOrder
  \/ \E info \in CustomerInfos : confirmOrder(info)
  \/ closeModal
  \/ RefreshButton
  \/ \E i \in Positions : StartButton(i)
  \/ \E i \in Positions : CompleteButton(i)
  \/ \E i \in Positions, b \in BOOLEAN : LeadButton(i, b)
  \/ \E i \in Positions, c \in BOOLEAN : CancelButton(i, c)
  \/ clearAllOrders
  \/ confirmClearAllOrders
  \/ cancelClearAllOrders
  \/ restartOrderId
  \/ confirmRestartOrderId
  \/ cancelRestartOrderId

Spec == Init /\ [][Next]_vars

\* export, reset and import of the orders.tsx copy, with the status buttons
NextExport ==
  \/ MountPos
  \/ MountOrders
  \/ \E item \in Menu1 : addFirstItem(item)
  \/ handlePlaceOrder
  \/ \E info \in CustomerInfos : confirmOrder(info)
  \/ closeModal
  \/ \E i \in Positions : StartButton(i)
  \/ \E i \in Positions : CompleteButton(i)
  \/ \E i \in Positions, b \in BOOLEAN : LeadButton(i, b)
  \/ \E i \in Positions, c \in BOOLEAN : CancelButton(i, c)
  \/ resetAllData
  \/ confirmResetAllData
  \/ cancelResetAllData
  \/ exportData
  \/ \E f \in {"exported"} : importData(f)

SpecExport == Init /\ [][NextExport]_vars

\* the clock runs: placing, starting and completing orders, also orders of
\* an older document
NextTime ==
  \/ Tick
  \/ MountPos
  \/ MountOrders
  \/ \E item \in Menu1 : addFirstItem(item)
  \/ handlePlaceOrder
  \/ \E info \in CustomerInfos : confirmOrder(info)
  \/ closeModal
  \/ \E i \in Positions : StartButton(i)
  \/ \E i \in Positions : CompleteButton(i)
  \/ \E f \in {"legacy"} : importData(f)

SpecTime == Init /\ [][NextTime]_vars

\* placing while the slot holds fewer than MaxDialogOrders orders
confirmFewOrders(info) == Len(lsOrders) < MaxDialogOrders /\ confirmOrder(info)

\* the Modify Order dialog
NextModify ==
  \/ MountPos
  \/ MountOrders
  \/ \E item \in Menu : addToCart(item)
  \/ handlePlaceOrder
  \/ \E info \in CustomerInfos : confirmFewOrders(info)
  \/ closeModal
  \/ \E i \in Positions : StartButton(i)
  \/ \E i \in Positions : ModifyButton(i)
  \/ \E i \in Positions : toggleEditNotes(i)
  \/ \E name \in EditedNames : SetCustomerName(name)
  \/ \E text \in NoteTexts : SetOrderNotes(text)
  \/ \E row \in 1..MaxCartQty, u \in ItemUpdates : updateOrderItem(row, u)
  \/ \E row \in 1..MaxCartQty : RemoveItemButton(row)
  \/ saveModifiedOrder
  \/ CancelDialog

SpecModify == Init /\ [][NextModify]_vars

\* the items of the Modify Order dialog
NextItems ==
  \/ MountPos
  \/ MountOrders
  \/ \E item \in Menu : addToCart(item)
  \/ handlePlaceOrder
  \/ \E info \in CustomerInfos : confirmFewOrders(info)
  \/ closeModal
  \/ \E i \in Positions : ModifyButton(i)
  \/ \E i \in Positions : toggleEditNotes(i)
  \/ \E row \in 1..MaxCartQty, u \in ItemUpdates : updateOrderItem(row, u)
  \/ \E row \in 1..MaxCartQty : RemoveItemButton(row)
  \/ saveModifiedOrder
  \/ CancelDialog

SpecItems == Init /\ [][NextItems]_vars

\* --------------------------------------------------------- Reporting Engine
\* a value of a JavaScript sum: a number, or the text that + builds once a
\* string took part (the pieces, in order)
JsNumber(cents) == [isNumber |-> TRUE, cents |-> cents, text |-> <<>>]
JsText(value) ==
  IF value.isNumber THEN <<NumberTotal(value.cents)>> ELSE value.text

\* sum + total, where total is an order's total
JsAdd(sum, total) ==
  IF sum.isNumber /\ ~total.str
  THEN JsNumber(sum.cents + total.cents)
  ELSE [isNumber |-> FALSE, cents |-> 0, text |-> Append(JsText(sum), total)]

\* fetchOrders: what the Reports page loads from the slot
ReportsFetchOrders == IF lsOrdersMalformed THEN <<>> ELSE lsOrders

\* filteredOrders over the range [start, end]
ReportsFilteredOrders(loaded, start, end) ==
  LET InRange(order) == order.timestamp >= start /\ order.timestamp <= end
  IN SelectSeq(loaded, InRange)

RECURSIVE ReportsTotalSales(_)
\* filteredOrders.reduce((sum, order) => sum + (complimentary ? 0 : total), 0)
ReportsTotalSales(filtered) ==
  IF filtered = <<>>
  THEN JsNumber(0)
  ELSE LET front == SubSeq(filtered, 1, Len(filtered) - 1)
           last == filtered[Len(filtered)]
       IN JsAdd(ReportsTotalSales(front),
                IF last.isComplimentary THEN NumberTotal(0) ELSE last.total)

ReportsTotalOrders(filtered) == Len(filtered)

Times == 0..MaxTime

\* ------------------------------------------------------------ Reports page
\* the calendar day of a clock value, and the days the clock can reach
DayOf(time) == time \div TicksPerDay
Days == 0..DayOf(MaxTime)
TimeRanges == {"day", "week", "month", "custom"}
\* the file holds two copies of the Reports component
ReportsCopies == {"first", "second"}

\* the page mounts and its effect runs fetchOrders
MountReports ==
  /\ page # "reports"
  /\ ~isModalOpen
  /\ page' = "reports"
  /\ reportsOrders' = ReportsFetchOrders
  /\ timeRange' = "week"
  /\ customStartDate' = <<>>
  /\ customEndDate' = <<>>
  /\ dashboardOrders' = <<>>
  /\ orders' = <<>>
  /\ allOrders' = <<>>
  /\ error' = FALSE
  /\ DialogsClosed
  /\ PosUnmounted
  /\ UNCHANGED <<variant, now, exportedFile, storeVars>>

\* the time-range select
setTimeRange(value) ==
  /\ page = "reports"
  /\ timeRange' = value
  /\ UNCHANGED <<envVars, storeVars, posVars, listVars, dialogVars,
                 confirmVars, error, viewVars, reportsOrders,
                 customStartDate, customEndDate, dashboardOrders>>

\* the start-date picker, shown for the custom range (no later than today;
\* the model picks no start that lies after the end date)
setCustomStartDate(day) ==
  /\ page = "reports"
  /\ timeRange = "custom"
  /\ day <= DayOf(now)
  /\ customEndDate # <<>> => day <= customEndDate[1]
  /\ customStartDate' = <<day>>
  /\ UNCHANGED <<envVars, storeVars, posVars, listVars, dialogVars,
                 confirmVars, error, viewVars, reportsOrders, timeRange,
                 customEndDate, dashboardOrders>>

\* the end-date picker (minDate the start date, maxDate today)
setCustomEndDate(day) ==
  /\ page = "reports"
  /\ timeRange = "custom"
  /\ day <= DayOf(now)
  /\ customStartDate # <<>> => day >= customStartDate[1]
  /\ customEndDate' = <<day>>
  /\ UNCHANGED <<envVars, storeVars, posVars, listVars, dialogVars,
                 confirmVars, error, viewVars, reportsOrders, timeRange,
                 customStartDate, dashboardOrders>>

\* startOfWeek(now): the weeks are the runs of seven days from day 0
startOfWeek(day) == 7 * (day \div 7)

\* startOfMonth(now): the months are the runs of thirty days from day 0
startOfMonth(day) == 30 * (day \div 30)

\* getDateRange, in days; the second copy builds its custom range from the
\* two input strings, and new Date('') is an Invalid Date
getDateRange(copy) ==
  LET today == DayOf(now)
  IN CASE timeRange = "day" ->
            [valid |-> TRUE, start |-> today, end |-> today]
       [] timeRange = "month" ->
            [valid |-> TRUE, start |-> startOfMonth(today),
             end |-> startOfMonth(today) + 29]
       [] timeRange = "custom" /\ copy = "first" ->
            [valid |-> TRUE,
             start |-> IF customStartDate # <<>>
                       THEN customStartDate[1] ELSE today,
             end |-> IF customEndDate # <<>>
                     THEN customEndDate[1] ELSE today]
       [] timeRange = "custom" /\ copy = "second" ->
            [valid |-> customStartDate # <<>> /\ customEndDate # <<>>,
             start |-> IF customStartDate # <<>>
                       THEN customStartDate[1] ELSE 0,
             end |-> IF customEndDate # <<>>
                     THEN customEndDate[1] ELSE 0]
       [] OTHER ->
            [valid |-> TRUE, start |-> startOfWeek(today),
             end |-> startOfWeek(today) + 6]

\* filteredOrders: start is the first instant of its day, end the last of
\* its day; every comparison with an Invalid Date is false
filteredOrders(copy) ==
  LET range == getDateRange(copy)
  IN IF range.valid
     THEN ReportsFilteredOrders(reportsOrders, range.start * TicksPerDay,
                                range.end * TicksPerDay + TicksPerDay - 1)
     ELSE <<>>

\* eachDayOfInterval({ start, end }), start not after end
eachDayOfInterval(start, end) ==
  [i \in 1..(end - start + 1) |-> start + i - 1]

RECURSIVE SortedDays(_)
\* the keys of `data`, after .sort((a, b) => a.date.localeCompare(b.date))
SortedDays(days) ==
  IF days = {}
  THEN <<>>
  ELSE LET first == CHOOSE d \in days : \A e \in days : d <= e
       IN <<first>> \o SortedDays(days \ {first})

\* the entry of one day: sales += complimentary ? 0 : total, orders += 1,
\* over the filtered orders of that day
DayEntry(filtered, day) ==
  LET OfDay(order) == DayOf(order.timestamp) = day
      ofDay == SelectSeq(filtered, OfDay)
  IN [date |-> day, sales |-> ReportsTotalSales(ofDay), orders |-> Len(ofDay)]

\* salesData: the first copy starts from a zero entry for every day of the
\* range, the second from the empty object
salesData(copy) ==
  LET filtered == filteredOrders(copy)
      range == getDateRange(copy)
      ordered == { DayOf(filtered[k].timestamp) : k \in DOMAIN filtered }
      days == IF copy = "first"
              THEN eachDayOfInterval(range.start, range.end)
              ELSE SortedDays(ordered)
  IN [i \in DOMAIN days |-> DayEntry(filtered, days[i])]

\* dailySalesAndOrders of the first copy
dailySalesAndOrders ==
  LET range == getDateRange("first")
      days == eachDayOfInterval(range.start, range.end)
  IN [i \in DOMAIN days |-> DayEntry(filteredOrders("first"), days[i])]

\* ------------------------------------------------- JavaScript arithmetic
RECURSIVE GCD(_, _)
\* the greatest common divisor of a natural number and a positive one
GCD(a, b) == IF a = 0 THEN b ELSE GCD(b % a, a)

\* a JavaScript number: the ratio n / d with d > 0 in lowest terms, or NaN, or
\* an infinity
JsRatio(n, d) ==
  LET g == GCD(IF n < 0 THEN 0 - n ELSE n, d)
  IN [kind |-> "number", n |-> n \div g, d |-> d \div g]
NaN == [kind |-> "NaN", n |-> 0, d |-> 1]
Infinity == [kind |-> "Infinity", n |-> 0, d |-> 1]
NegativeInfinity == [kind |-> "-Infinity", n |-> 0, d |-> 1]

DigitChars == <<"0", "1", "2", "3", "4", "5", "6", "7", "8", "9">>

RECURSIVE DigitsOf(_)
\* the decimal digits of a natural number
DigitsOf(n) ==
  IF n < 10
  THEN <<DigitChars[n + 1]>>
  ELSE Append(DigitsOf(n \div 10), DigitChars[(n % 10) + 1])

\* String(x) of a number of dollars x = cents / 100: no trailing zeros
NumberToString(cents) ==
  LET frac == cents % 100
  IN DigitsOf(cents \div 100) \o
     (IF frac = 0 THEN <<>>
      ELSE IF frac % 10 = 0 THEN <<".", DigitChars[(frac \div 10) + 1]>>
      ELSE <<".", DigitChars[(frac \div 10) + 1], DigitChars[(frac % 10) + 1]>>)

\* x.toFixed(2)
toFixed2(cents) ==
  DigitsOf(cents \div 100) \o
  <<".", DigitChars[((cents % 100) \div 10) + 1], DigitChars[(cents % 10) + 1]>>

RECURSIVE JsConcat(_)
\* the characters of a string that + built from the pieces
JsConcat(pieces) ==
  IF pieces = <<>>
  THEN <<>>
  ELSE (IF Head(pieces).str
        THEN toFixed2(Head(pieces).cents)
        ELSE NumberToString(Head(pieces).cents)) \o JsConcat(Tail(pieces))

RECURSIVE DigitsValue(_)
DigitsValue(chars) ==
  IF chars = <<>>
  THEN 0
  ELSE 10 * DigitsValue(SubSeq(chars, 1, Len(chars) - 1))
       + (CHOOSE d \in 0..9 : DigitChars[d + 1] = chars[Len(chars)])

RECURSIVE WithoutTrailingZeros(_)
\* the digits after the point, without the zeros that end them
WithoutTrailingZeros(chars) ==
  IF chars # <<>> /\ chars[Len(chars)] = "0"
  THEN WithoutTrailingZeros(SubSeq(chars, 1, Len(chars) - 1))
  ELSE chars

RECURSIVE PowerOfTen(_)
PowerOfTen(k) == IF k = 0 THEN 1 ELSE 10 * PowerOfTen(k - 1)

\* Number(text) of a text of digits and points: NaN with a second point
StringToNumber(chars) ==
  LET points == { i \in DOMAIN chars : chars[i] = "." }
  IN IF Cardinality(points) > 1
     THEN NaN
     ELSE IF points = {}
     THEN JsRatio(DigitsValue(chars), 1)
     ELSE LET p == CHOOSE i \in points : TRUE
              decimals == WithoutTrailingZeros(SubSeq(chars, p + 1, Len(chars)))
          IN JsRatio(DigitsValue(SubSeq(chars, 1, p - 1) \o decimals),
                     PowerOfTen(Len(decimals)))

\* the number an arithmetic operator reads from a value of a sum
JsToNumber(value) ==
  IF value.isNumber
  THEN JsRatio(value.cents, 100)
  ELSE StringToNumber(JsConcat(value.text))

\* a || b picks b for 0, NaN and undefined; every text here is non-empty
JsTruthy(value) == value.isNumber => value.cents # 0

\* a - b
JsSubtract(a, b) ==
  IF a.kind = "number" /\ b.kind = "number"
  THEN JsRatio(a.n * b.d - b.n * a.d, a.d * b.d)
  ELSE NaN

\* a / b for a and b that are numbers or NaN, b not negative
JsDivide(a, b) ==
  IF a.kind # "number" \/ b.kind # "number" THEN NaN
  ELSE IF b.n = 0
  THEN (IF a.n = 0 THEN NaN ELSE IF a.n > 0 THEN Infinity
        ELSE NegativeInfinity)
  ELSE JsRatio(a.n * b.d, a.d * b.n)

\* a * 100
JsTimes100(a) == IF a.kind = "number" THEN JsRatio(a.n * 100, a.d) ELSE a

\* two JavaScript numbers are the same number
JsSame(a, b) ==
  /\ a.kind = b.kind
  /\ a.kind = "number" => a.n * b.d = b.n * a.d

\* totalSales and totalOrders of the page
totalSales(copy) == ReportsTotalSales(filteredOrders(copy))
totalOrders(copy) == ReportsTotalOrders(filteredOrders(copy))

\* a quotient as the page computes it, with the divisor it divided by; a
\* guard that replaces the quotient by 0 leaves no divisor
Quotient(a, b) == [value |-> JsDivide(a, b), divisor |-> <<b>>]
ReplacedByZero == [value |-> JsRatio(0, 1), divisor |-> <<>>]

\* salesValues[index - 1] || salesValues[index], indices from 1
PreviousOrSame(values, index) ==
  IF index > 1 /\ JsTruthy(values[index - 1])
  THEN values[index - 1]
  ELSE values[index]

\* ((item.sales - previousSales) / previousSales) * 100
GrowthRate(values, index) ==
  LET current == JsToNumber(values[index])
      previous == JsToNumber(PreviousOrSame(values, index))
      quotient == Quotient(JsSubtract(current, previous), previous)
  IN [value |-> JsTimes100(quotient.value), divisor |-> quotient.divisor]

\* enhancedSalesTrend of the first copy: the growth rates of each day
enhancedSalesTrend ==
  LET baseData == salesData("first")
      salesValues == [i \in DOMAIN baseData |-> baseData[i].sales]
      \* JsNumber takes hundredths
      ordersValues ==
        [i \in DOMAIN baseData |-> JsNumber(100 * baseData[i].orders)]
  IN [index \in DOMAIN baseData |->
        [date |-> baseData[index].date,
         sales |-> baseData[index].sales,
         orders |-> baseData[index].orders,
         salesGrowth |-> GrowthRate(salesValues, index),
         ordersGrowth |-> GrowthRate(ordersValues, index)]]

\* Math.round(a) of a number that is not negative
JsRound(a) ==
  IF a.kind = "number" THEN JsRatio((2 * a.n + a.d) \div (2 * a.d), 1) ELSE a

\* averageOrderValue
averageOrderValue ==
  LET Paid(order) == ~order.isComplimentary
      paidOrders == SelectSeq(filteredOrders("first"), Paid)
  IN IF Len(paidOrders) > 0
     THEN Quotient(JsToNumber(totalSales("first")), JsRatio(Len(paidOrders), 1))
     ELSE ReplacedByZero

\* averagePreparationTime
averagePreparationTime ==
  LET Timed(order) == order.preparationTime # <<>>
      ordersWithPrepTime == SelectSeq(filteredOrders("first"), Timed)
      sum == SumSeq([k \in DOMAIN ordersWithPrepTime |->
                       ordersWithPrepTime[k].preparationTime[1]])
      quotient == Quotient(JsRatio(sum, 1), JsRatio(Len(ordersWithPrepTime), 1))
  IN IF Len(ordersWithPrepTime) = 0
     THEN ReplacedByZero
     ELSE [value |-> JsRound(quotient.value), divisor |-> quotient.divisor]

\* repeatCustomerRate, with uniqueCustomers the number of distinct names
repeatCustomerRate ==
  LET filtered == filteredOrders("first")
      names == { filtered[k].customerName : k \in DOMAIN filtered }
      Count(name) ==
        Cardinality({ k \in DOMAIN filtered : filtered[k].customerName = name })
      repeatCustomers == Cardinality({ name \in names : Count(name) > 1 })
      quotient == Quotient(JsRatio(repeatCustomers, 1),
                           JsRatio(Cardinality(names), 1))
  IN IF Cardinality(names) > 0
     THEN [value |-> JsTimes100(quotient.value), divisor |-> quotient.divisor]
     ELSE ReplacedByZero

\* averageItemsPerOrder
averageItemsPerOrder ==
  LET filtered == filteredOrders("first")
      totalItems ==
        SumSeq([k \in DOMAIN filtered |->
                  SumSeq([j \in DOMAIN filtered[k].items |->
                            filtered[k].items[j].quantity])])
  IN IF totalOrders("first") > 0
     THEN Quotient(JsRatio(totalItems, 1), JsRatio(totalOrders("first"), 1))
     ELSE ReplacedByZero

\* sum + val for two values of a sum: an addition of numbers, else the
\* concatenation of the two texts
JsPlus(sum, val) ==
  IF sum.isNumber /\ val.isNumber
  THEN JsNumber(sum.cents + val.cents)
  ELSE [isNumber |-> FALSE, cents |-> 0, text |-> JsText(sum) \o JsText(val)]

RECURSIVE JsReduceSum(_)
\* values.reduce((sum, val) => sum + val, 0)
JsReduceSum(values) ==
  IF values = <<>>
  THEN JsNumber(0)
  ELSE JsPlus(JsReduceSum(SubSeq(values, 1, Len(values) - 1)),
              values[Len(values)])

\* the larger of two integers
Max(a, b) == IF a >= b THEN a ELSE b

\* calculateMovingAverage(data, periods), indices from 1: the slice
\* data.slice(start, index + 1) with start = Math.max(0, index - periods + 1)
calculateMovingAverage(data, periods) ==
  [index \in DOMAIN data |->
     LET start == Max(1, index - periods + 1)
         values == SubSeq(data, start, index)
     IN JsDivide(JsToNumber(JsReduceSum(values)), JsRatio(Len(values), 1))]

\* salesValues and movingAverageSales of enhancedSalesTrend
salesValues ==
  LET series == salesData("first")
  IN [i \in DOMAIN series |-> series[i].sales]
movingAverageSales == calculateMovingAverage(salesValues, 7)

RECURSIVE OrderLines(_)
\* the line items of the orders, in the order the two forEach visit them
OrderLines(list) ==
  IF list = <<>> THEN <<>> ELSE Head(list).items \o OrderLines(Tail(list))

RECURSIVE ItemNames(_)
\* the keys of itemCounts, in the order they were created
ItemNames(lines) ==
  IF lines = <<>>
  THEN <<>>
  ELSE LET front == ItemNames(SubSeq(lines, 1, Len(lines) - 1))
           name == lines[Len(lines)].name
       IN IF \E i \in DOMAIN front : front[i] = name
          THEN front
          ELSE Append(front, name)

\* itemCounts[name] after the loops
ItemCount(lines, name) ==
  LET Named(line) == line.name = name
      named == SelectSeq(lines, Named)
  IN [name |-> name,
      quantity |-> SumSeq([k \in DOMAIN named |-> named[k].quantity]),
      revenue |-> SumSeq([k \in DOMAIN named |->
                            named[k].price * named[k].quantity])]

RECURSIVE SortedByQuantity(_)
\* .sort((a, b) => b.quantity - a.quantity): descending, and stable
SortedByQuantity(entries) ==
  IF entries = <<>>
  THEN <<>>
  ELSE LET rest == SortedByQuantity(Tail(entries))
           before == Cardinality({ i \in DOMAIN rest :
                                    rest[i].quantity > Head(entries).quantity })
       IN SubSeq(rest, 1, before) \o <<Head(entries)>>
            \o SubSeq(rest, before + 1, Len(rest))

\* .slice(0, count)
Slice0(list, count) == SubSeq(list, 1, IF Len(list) < count THEN Len(list) ELSE count)

\* topSellingItems without the sort
topSellingItems_unsorted(copy) ==
  LET lines == OrderLines(filteredOrders(copy))
      names == ItemNames(lines)
  IN Slice0([i \in DOMAIN names |-> ItemCount(lines, names[i])], 10)

\* topSellingItems, the same in both copies
topSellingItems(copy) ==
  LET lines == OrderLines(filteredOrders(copy))
      names == ItemNames(lines)
  IN Slice0(SortedByQuantity([i \in DOMAIN names |->
                                ItemCount(lines, names[i])]), 10)

\* ---------------------------------------------------------- Dashboard page
RECURSIVE SortedByTime(_)
\* orders.sort((a, b) => time(b) - time(a)): descending and stable; sort
\* orders the array it is called on
SortedByTime(list) ==
  IF list = <<>>
  THEN <<>>
  ELSE LET rest == SortedByTime(Tail(list))
           before == Cardinality({ i \in DOMAIN rest :
                                    rest[i].timestamp > Head(list).timestamp })
       IN SubSeq(rest, 1, before) \o <<Head(list)>>
            \o SubSeq(rest, before + 1, Len(rest))

\* recentOrders, from the array of the `orders` state
recentOrders(list) ==
  LET sorted == Slice0(SortedByTime(list), 5)
  IN [i \in DOMAIN sorted |->
        [id |-> sorted[i].id, customerName |-> sorted[i].customerName,
         total |-> sorted[i].total, status |-> sorted[i].status,
         time |-> sorted[i].timestamp]]

\* the Dashboard mounts: fetchDashboardData stores the parsed orders and the
\* render that follows computes recentOrders, whose sort works on the stored
\* array itself
MountDashboard ==
  /\ page # "dashboard"
  /\ ~isModalOpen
  /\ page' = "dashboard"
  /\ dashboardOrders' = SortedByTime(ReportsFetchOrders)
  /\ reportsOrders' = <<>>
  /\ timeRange' = "week"
  /\ customStartDate' = <<>>
  /\ customEndDate' = <<>>
  /\ orders' = <<>>
  /\ allOrders' = <<>>
  /\ error' = FALSE
  /\ DialogsClosed
  /\ PosUnmounted
  /\ UNCHANGED <<variant, now, exportedFile, storeVars>>

\* the number of days of [start, end], both included
DaysOfRange(copy) == getDateRange(copy).end - getDateRange(copy).start + 1

\* ------------------------------------------------------------------ claims
Ids(list) == { list[k].id : k \in DOMAIN list }

\* a status button or a lead-interest button is pressed
OtherOrderStep ==
  \E i \in Positions :
    \/ StartButton(i)
    \/ CompleteButton(i)
    \/ \E b \in BOOLEAN : LeadButton(i, b)

\* C1: once an order is Cancelled in the historical list, it is absent from
\* the active list and stays in the historical list, still Cancelled, across
\* every status update and lead-interest record made on the other orders.
C1_CancelledStaysInHistory ==
  [][ OtherOrderStep =>
        \A k \in DOMAIN allOrders :
          (allOrders[k].status = "Cancelled" /\ allOrders[k].id \notin Ids(orders))
            => /\ \E j \in DOMAIN allOrders' : allOrders'[j] = allOrders[k]
               /\ allOrders[k].id \notin Ids(orders') ]_vars

C3_ClearAllMarksActiveIds ==
  [][ /\ confirmClearAllOrders =>
           /\ orders' = <<>>
           /\ DOMAIN allOrders' = DOMAIN allOrders
           /\ \A k \in DOMAIN allOrders :
                IF allOrders[k].id \in Ids(orders)
                THEN allOrders'[k].status = "Cleared"
                ELSE allOrders'[k].status = allOrders[k].status
      /\ cancelClearAllOrders => UNCHANGED <<orders, allOrders>> ]_vars

\* C3 witness: after a clear-all the history holds a Cleared order next to an
\* order that was not active and kept its status
C3_Witness ==
  /\ page = "orders"
  /\ orders = <<>>
  /\ \E k \in DOMAIN allOrders : allOrders[k].status = "Cleared"
  /\ \E k \in DOMAIN allOrders : allOrders[k].status = "Cancelled"

\* C4: cancelOrder called with the id of an order that is not Pending changes
\* neither the active list, nor the historical list, nor the persisted slot,
\* whatever the answer to the confirmation.
C4_CancelNonPendingRejected ==
  [][ \A i \in Positions, c \in BOOLEAN :
        (/\ CancelButton(i, c)
         /\ \E k \in DOMAIN orders :
              orders[k].id = orders[i].id /\ orders[k].status # "Pending")
          => UNCHANGED <<orders, allOrders, lsOrders>> ]_vars

\* the Save Changes step of a dialog that modifyOrder opened
ModifySaveStep ==
  /\ saveModifiedOrder
  /\ variant = "orders.tsx" => isEditing

\* C5: saving the Modify dialog leaves items, total, notes and customerName
\* of every order that is not Pending as they were.
C5_ModifyOnlyWhilePending ==
  [][ ModifySaveStep =>
        \A k \in DOMAIN orders :
          orders[k].status # "Pending"
            => /\ orders'[k].items = orders[k].items
               /\ orders'[k].total.cents = orders[k].total.cents
               /\ NotesOrEmpty(orders'[k]) = NotesOrEmpty(orders[k])
               /\ orders'[k].customerName = orders[k].customerName ]_vars

\* a Start, Complete or Cancel button is pressed
StatusOrCancelStep ==
  \E i \in Positions :
    \/ StartButton(i)
    \/ CompleteButton(i)
    \/ \E c \in BOOLEAN : CancelButton(i, c)

\* C6: a Completed order of the active list is still there, with the same
\* status and preparationTime, after every Start, Complete and Cancel.
C6_CompletedIsTerminal ==
  [][ StatusOrCancelStep =>
        \A k \in DOMAIN orders :
          orders[k].status = "Completed"
            => \E j \in DOMAIN orders' :
                 /\ orders'[j].id = orders[k].id
                 /\ orders'[j].timestamp = orders[k].timestamp
                 /\ orders'[j].status = "Completed"
                 /\ orders'[j].preparationTime = orders[k].preparationTime ]_vars

C8_StartRecordsStartTime ==
  [][ \A i \in Positions :
        StartButton(i) =>
          \A k \in DOMAIN orders :
            orders[k].id = orders[i].id => orders'[k].startTime = <<now>> ]_vars

\* total == sum of price * quantity over the items
TotalMatchesItems(order) == order.total = NumberTotal(calculateTotal(order.items))

\* C9: after an item edit the dialog's order, and after Save Changes the saved
\* order in the active list and in the persisted slot, has
\* total == sum of price * quantity over its items.
C9_TotalMatchesItemsAfterEdit ==
  [][ /\ (variant = "orders.tsx" /\ saveModifiedOrder) =>
           /\ ~lsOrdersMalformed'
           /\ lsOrders' = orders'
           /\ \A k \in DOMAIN orders :
                orders[k].id = selectedOrder[1].id
                  => /\ orders'[k].items = editedItems
                     /\ TotalMatchesItems(orders'[k])
      /\ (\E row \in 1..MaxCartQty, u \in ItemUpdates : updateOrderItem(row, u))
           => TotalMatchesItems(selectedOrder'[1]) ]_vars

\* C9 witness: a complimentary order, placed with total 0, was saved from the
\* dialog with an item left and now carries the sum of its items
C9_Witness ==
  /\ page = "orders"
  /\ ~showOrderDetails
  /\ \E k \in DOMAIN lsOrders :
       /\ lsOrders[k].isComplimentary
       /\ lsOrders[k].notes # <<>>
       /\ lsOrders[k].items # <<>>
       /\ lsOrders[k].total.cents > 0
       /\ TotalMatchesItems(lsOrders[k])

\* C10: every persisted complimentary order has total 0.
C10_ComplimentaryTotalIsZero ==
  ~lsOrdersMalformed =>
    \A k \in DOMAIN lsOrders :
      lsOrders[k].isComplimentary => lsOrders[k].total.cents = 0

\* the list controls and the ID restart
NextView ==
  \/ MountPos
  \/ MountOrders
  \/ \E item \in Menu1 : addFirstItem(item)
  \/ handlePlaceOrder
  \/ \E info \in CustomerInfos : confirmOrder(info)
  \/ closeModal
  \/ Tick
  \/ \E i \in Positions : CompleteButton(i)
  \/ \E value \in StatusFilters : setStatusFilter(value)
  \/ \E value \in SortCriterias : setSortCriteria(value)
  \/ toggleSortDirection
  \/ restartOrderId
  \/ confirmRestartOrderId
  \/ cancelRestartOrderId

SpecView == Init /\ [][NextView]_vars

\* a backup restored after Reset All Data, and the Modify Order dialog
NextRestore ==
  \/ MountPos
  \/ MountOrders
  \/ ToggleComplimentaryMode
  \/ \E item \in Menu1 : addFirstItem(item)
  \/ handlePlaceOrder
  \/ \E info \in CustomerInfos : confirmOrder(info)
  \/ closeModal
  \/ resetAllData
  \/ confirmResetAllData
  \/ cancelResetAllData
  \/ exportData
  \/ \E f \in {"exported"} : importData(f)
  \/ \E i \in Positions : ModifyButton(i)
  \/ saveModifiedOrder
  \/ CancelDialog

SpecRestore == Init /\ [][NextRestore]_vars

\* Import Data with the documents a user may pick
NextImport ==
  \/ MountPos
  \/ MountOrders
  \/ \E item \in Menu1 : addFirstItem(item)
  \/ handlePlaceOrder
  \/ \E info \in CustomerInfos : confirmOrder(info)
  \/ closeModal
  \/ RefreshButton
  \/ \E i \in Positions : StartButton(i)
  \/ \E f \in {"legacy", "noOrdersKey", "notJson"} : importData(f)

SpecImport == Init /\ [][NextImport]_vars

\* no two positions of the list hold the same id
UniqueIds(list) ==
  \A a, b \in DOMAIN list : list[a].id = list[b].id => a = b

\* C11: no two orders of the active list, and no two orders of the persisted
\* slot, have the same id, across placing, POS reloads, status updates,
\* cancels, clear-all and ID reset.
C11_ActiveIdsUnique ==
  /\ UniqueIds(orders)
  /\ ~lsOrdersMalformed => UniqueIds(lsOrders)

\* C11 witness: two orders renumbered by an ID reset (the newest now carries
\* the smallest id) while the counter stays at the last number handed out
C11_Witness ==
  /\ page = "orders"
  /\ Len(orders) = 2
  /\ orders[1].id < orders[2].id
  /\ lsOrders = orders
  /\ lsLastOrderNumber >= 2

\* C12: a confirmed ID reset gives the order shown at position i of the list
\* on screen (all statuses shown) the id i, so the active ids are 1..N, and
\* numbers the historical list by position; cancelling the reset changes no id.
C12_RestartFollowsDisplayOrder ==
  [][ /\ (confirmRestartOrderId /\ statusFilter = "All") =>
           /\ Ids(orders') = 1..Len(orders)
           /\ \A k \in DOMAIN allOrders : allOrders'[k].id = k
           /\ \A i \in DOMAIN filterAndSortOrders, k \in DOMAIN orders :
                filterAndSortOrders[i] = orders[k] => orders'[k].id = i
      /\ cancelRestartOrderId => UNCHANGED <<orders, allOrders>> ]_vars

\* a Yes / No answer to the sales-pitch question is recorded
LeadStep == \E i \in Positions, b \in BOOLEAN : LeadButton(i, b)

\* C13: a new order has no leadInterest, and recording the leadInterest of an
\* order leaves every leadInterest that was recorded before as it is.
C13_LeadInterestSetOnce ==
  [][ /\ \A info \in CustomerInfos :
           confirmOrder(info) => lsOrders'[1].leadInterest = <<>>
      /\ LeadStep =>
           \A k \in DOMAIN orders :
             orders[k].leadInterest # <<>>
               => orders'[k].leadInterest = orders[k].leadInterest ]_vars

\* an operation of the Active Orders page that rewrites the active list
OrdersPageStep ==
  \/ \E i \in Positions : StartButton(i) \/ CompleteButton(i)
  \/ \E i \in Positions, b \in BOOLEAN : LeadButton(i, b) \/ CancelButton(i, b)
  \/ saveModifiedOrder
  \/ confirmClearAllOrders
  \/ confirmRestartOrderId

\* the fields fixed at placement are the same in both records
PlacementKept(before, after) ==
  /\ after.timestamp = before.timestamp
  /\ after.queueTime = before.queueTime
  /\ after.isComplimentary = before.isComplimentary

\* C14: an operation of the Active Orders page leaves timestamp, queueTime
\* and isComplimentary of every order of the active list as they were (an
\* operation that removes orders leaves them so on the orders that remain).
C14_PlacementFieldsKept ==
  [][ OrdersPageStep =>
        IF DOMAIN orders' = DOMAIN orders
        THEN \A k \in DOMAIN orders : PlacementKept(orders[k], orders'[k])
        ELSE \A j \in DOMAIN orders' :
               \E k \in DOMAIN orders : PlacementKept(orders[k], orders'[j]) ]_vars

\* C15: importing a JSON document without an `orders` key leaves the content
\* of the persisted orders slot as it was and shows the error.
C15_ImportWithoutOrdersFails ==
  [][ importData("noOrdersKey") =>
        /\ UNCHANGED <<lsOrders, lsOrdersMalformed>>
        /\ error' ]_vars

\* loadOrders runs in this step and the slot it reads is malformed
LoadsMalformed ==
  \/ lsOrdersMalformed /\ (MountOrders \/ RefreshButton)
  \/ lsOrdersMalformed' /\ \E f \in {"legacy", "noOrdersKey"} : importData(f)

\* C16: when loadOrders finds malformed content in the slot, the error is set
\* and the page goes on with an empty active list and an empty historical list.
C16_MalformedLoadEmptiesLists ==
  [][ LoadsMalformed =>
        /\ error'
        /\ orders' = <<>>
        /\ allOrders' = <<>> ]_vars

\* the Reports page over orders placed on the POS page on several days
NextReports ==
  \/ Tick
  \/ MountPos
  \/ MountReports
  \/ ToggleComplimentaryMode
  \/ \E item \in Menu1 : addFirstItem(item)
  \/ handlePlaceOrder
  \/ \E info \in CustomerInfos : confirmOrder(info)
  \/ closeModal
  \/ \E value \in TimeRanges : setTimeRange(value)
  \/ \E day \in Days : setCustomStartDate(day)
  \/ \E day \in Days : setCustomEndDate(day)

SpecReports == Init /\ [][NextReports]_vars

\* a daily series has one entry for every day of the range, in ascending order
OneEntryPerDay(series, copy) ==
  /\ Len(series) = DaysOfRange(copy)
  /\ \A i \in DOMAIN series : series[i].date = getDateRange(copy).start + i - 1

\* C17: for every stored collection and every range [start, end], each daily
\* series of the Reports page (salesData of either copy of the component,
\* dailySalesAndOrders) has exactly end - start + 1 entries, one per calendar
\* day of the range in ascending order, the days without orders included.
C17_DailySeriesCoversRange ==
  page = "reports" =>
    /\ \A copy \in ReportsCopies :
         getDateRange(copy).valid => OneEntryPerDay(salesData(copy), copy)
    /\ OneEntryPerDay(dailySalesAndOrders, "first")

\* the arithmetic sum, in cents, of the totals of the paid orders of a list
PaidCents(list) ==
  SumSeq([k \in DOMAIN list |->
            IF list[k].isComplimentary THEN 0 ELSE list[k].total.cents])

\* the filtered orders of one day
OrdersOfDay(copy, day) ==
  LET OfDay(order) == DayOf(order.timestamp) = day
  IN SelectSeq(filteredOrders(copy), OfDay)

\* the days whose entry of the series holds the sum of its paid totals
SalesAreSums(series, copy) ==
  \A i \in DOMAIN series :
     /\ JsSame(JsToNumber(series[i].sales),
               JsRatio(PaidCents(OrdersOfDay(copy, series[i].date)), 100))
     /\ series[i].orders = Len(OrdersOfDay(copy, series[i].date))

\* C18: in the daily series each day's sales is the sum of total over that
\* day's non-complimentary filtered orders and its orders the count of that
\* day's filtered orders, so that the daily sales add up to totalSales and
\* the daily orders to totalOrders.
C18_DailySalesAreSums ==
  page = "reports" =>
    LET series == salesData("first")
    IN /\ SalesAreSums(series, "first")
       /\ JsSame(JsToNumber(totalSales("first")),
                 JsRatio(SumSeq([i \in DOMAIN series |->
                    PaidCents(OrdersOfDay("first", series[i].date))]), 100))
       /\ SumSeq([i \in DOMAIN series |-> series[i].orders])
            = totalOrders("first")

\* C19: in enhancedSalesTrend the growth rates of the first day of the series
\* (index 0: salesGrowth and ordersGrowth) are 0, whatever the first day's
\* value is, 0 included.
C19_FirstDayGrowthIsZero ==
  page = "reports" /\ enhancedSalesTrend # <<>> =>
    /\ JsSame(enhancedSalesTrend[1].salesGrowth.value, JsRatio(0, 1))
    /\ JsSame(enhancedSalesTrend[1].ordersGrowth.value, JsRatio(0, 1))

\* the quotient divided by a number other than 0, or was replaced by 0
NonZeroDivisor(metric) ==
  \A k \in DOMAIN metric.divisor : ~JsSame(metric.divisor[k], JsRatio(0, 1))

\* C20: no reporting metric divides by zero: averageOrderValue,
\* averagePreparationTime, repeatCustomerRate, averageItemsPerOrder and the
\* day-over-day salesGrowth and ordersGrowth each divide by a number other
\* than 0 or are replaced by 0.
C20_NoDivisionByZero ==
  page = "reports" =>
    /\ NonZeroDivisor(averageOrderValue)
    /\ NonZeroDivisor(averagePreparationTime)
    /\ NonZeroDivisor(repeatCustomerRate)
    /\ NonZeroDivisor(averageItemsPerOrder)
    /\ \A index \in DOMAIN enhancedSalesTrend :
         /\ NonZeroDivisor(enhancedSalesTrend[index].salesGrowth)
         /\ NonZeroDivisor(enhancedSalesTrend[index].ordersGrowth)

\* a + b of two numbers
NumberPlus(a, b) ==
  IF a.kind = "number" /\ b.kind = "number"
  THEN JsRatio(a.n * b.d + b.n * a.d, a.d * b.d)
  ELSE NaN

RECURSIVE NumberSum(_)
NumberSum(numbers) ==
  IF numbers = <<>>
  THEN JsRatio(0, 1)
  ELSE NumberPlus(Head(numbers), NumberSum(Tail(numbers)))

\* the mean of the numbers data[max(0, i - 6) .. i], indices from 1
MeanOfWindow(data, index) ==
  LET start == Max(1, index - 6)
      window == [k \in 1..(index - start + 1) |-> JsToNumber(data[start + k - 1])]
  IN JsDivide(NumberSum(window), JsRatio(Len(window), 1))

\* C21: calculateMovingAverage(data, 7) returns, for every index i, the mean
\* of data[max(0, i - 6) .. i]: at most seven entries, fewer at the start of
\* the series, none before index 0 and none after index i.
C21_MovingAverageIsWindowMean ==
  page = "reports" =>
    LET data == salesValues
        averages == calculateMovingAverage(data, 7)
    IN \A index \in DOMAIN data :
          JsSame(averages[index], MeanOfWindow(data, index))

\* ------------------------------------------- the Reports page over the menu
\* a line of the first `count` items of the menu, quantities in a pattern
MenuLine(j, step) ==
  [id |-> menuItems[j].id, name |-> menuItems[j].name,
   quantity |-> 1 + ((j * step) % MaxLineQuantity),
   price |-> menuItems[j].price]

\* a complimentary order placed at time 0 with these lines
MenuOrder(id, lines) ==
  [id |-> id,
   customerName |-> <<"Al", "B">>,
   items |-> lines,
   timestamp |-> 0,
   status |-> "Pending",
   total |-> NumberTotal(0),
   isComplimentary |-> TRUE,
   queueTime |-> 0,
   startTime |-> <<0>>,
   preparationTime |-> <<>>,
   leadInterest |-> <<>>,
   notes |-> <<>>]

\* the slot after one order of the first `count` items of the menu and, if
\* `twice`, a second order of every other one of them
MenuOrders(count, step, twice) ==
  LET all == [j \in 1..count |-> MenuLine(j, step)]
      Odd(line) == line.id % 2 = 1
  IN IF count = 0
     THEN <<>>
     ELSE (IF twice THEN <<MenuOrder(2, SelectSeq(all, Odd))>> ELSE <<>>)
          \o <<MenuOrder(1, all)>>

\* the POS page is opened on a slot that holds such orders
InitMenu ==
  /\ variant \in Variants
  /\ page = "pos"
  /\ now = 0
  /\ exportedFile = [present |-> FALSE, orders |-> <<>>]
  /\ \E count \in 0..Len(menuItems), step \in 1..MaxLineQuantity,
        twice \in BOOLEAN :
        /\ lsOrders = MenuOrders(count, step, twice)
        /\ lsLastOrderNumber = Len(MenuOrders(count, step, twice))
  /\ lsOrdersMalformed = FALSE
  /\ lsComplimentaryMode = TRUE
  /\ cart = <<>>
  /\ runningTotal = 0
  /\ orderNumber = lsLastOrderNumber + 1
  /\ isComplimentaryMode = TRUE
  /\ queueStartTime = 0
  /\ isModalOpen = FALSE
  /\ isFlavorModalOpen = FALSE
  /\ selectedFlavor = ""
  /\ selectedCoffeeItem = <<>>
  /\ orders = <<>>
  /\ allOrders = <<>>
  /\ selectedOrder = <<>>
  /\ editedItems = <<>>
  /\ orderNotes = ""
  /\ showOrderDetails = FALSE
  /\ isEditing = FALSE
  /\ showClearConfirmation = FALSE
  /\ showResetConfirmation = FALSE
  /\ showRestartConfirmation = FALSE
  /\ error = FALSE
  /\ statusFilter = "All"
  /\ sortCriteria = "timestamp"
  /\ sortDirection = "desc"
  /\ reportsOrders = <<>>
  /\ timeRange = "week"
  /\ customStartDate = <<>>
  /\ customEndDate = <<>>
  /\ dashboardOrders = <<>>

NextMenu ==
  \/ Tick
  \/ MountPos
  \/ MountReports
  \/ \E value \in TimeRanges : setTimeRange(value)
  \/ \E day \in Days : setCustomStartDate(day)
  \/ \E day \in Days : setCustomEndDate(day)

SpecMenu == InitMenu /\ [][NextMenu]_vars

\* C22: topSellingItems has at most 10 entries, with distinct names, in
\* non-increasing order of quantity; the quantity and the revenue of an entry
\* are the sums of quantity and of price * quantity over all line items of
\* that name in the filtered orders; no name left out has a quantity greater
\* than one that is included.
C22_TopSellingItems ==
  page = "reports" =>
    \A copy \in ReportsCopies :
      LET top == topSellingItems(copy)
          lines == OrderLines(filteredOrders(copy))
      IN /\ Len(top) <= 10
         /\ \A i, j \in DOMAIN top : i < j =>
              top[i].name # top[j].name /\ top[i].quantity >= top[j].quantity
         /\ \A i \in DOMAIN top : top[i] = ItemCount(lines, top[i].name)
         /\ \A k \in DOMAIN lines :
              (\A i \in DOMAIN top : top[i].name # lines[k].name) =>
                /\ Len(top) = 10
                /\ \A i \in DOMAIN top :
                     ItemCount(lines, lines[k].name).quantity <= top[i].quantity

\* more than ten names were sold, one of them in two orders, and the ten
\* entries do not all have the same quantity
C22_Witness ==
  /\ page = "reports"
  /\ Len(ItemNames(OrderLines(filteredOrders("first")))) > 10
  /\ Len(filteredOrders("first")) = 2
  /\ Len(topSellingItems("first")) = 10
  /\ topSellingItems("first")[1].quantity > topSellingItems("first")[10].quantity

\* the Reports page and the Dashboard over placed and imported orders
NextDashboard ==
  \/ Tick
  \/ MountPos
  \/ MountOrders
  \/ MountReports
  \/ MountDashboard
  \/ \E item \in Menu1 : addFirstItem(item)
  \/ handlePlaceOrder
  \/ \E info \in CustomerInfos : confirmOrder(info)
  \/ closeModal
  \/ \E f \in {"oldestFirst"} : importData(f)
  \/ \E value \in TimeRanges : setTimeRange(value)

SpecDashboard == Init /\ [][NextDashboard]_vars

\* C23: the reporting and dashboard computations are read-only: computing a
\* metric, a series or recentOrders never writes the persisted orders slot
\* and never changes the content or the order of the loaded order collection.
C23_ReportingIsReadOnly ==
  [][ /\ MountReports =>
           storeVars' = storeVars /\ reportsOrders' = ReportsFetchOrders
      /\ (\E value \in TimeRanges : setTimeRange(value)) =>
           storeVars' = storeVars /\ reportsOrders' = reportsOrders
      /\ MountDashboard =>
           storeVars' = storeVars /\ dashboardOrders' = ReportsFetchOrders
    ]_vars

\* C24: for each sort key and each direction, orders with equal key values
\* appear in the displayed list in the same relative order as in the active
\* list (stable tie-break, no secondary key).
C24_TiesKeepInputOrder ==
  page = "orders" =>
    LET shown == filterAndSortOrders
    IN \A i, j \in DOMAIN shown :
         i < j /\ SortKey(shown[i]) = SortKey(shown[j]) =>
           \E a, b \in DOMAIN orders :
              a < b /\ orders[a] = shown[i] /\ orders[b] = shown[j]

\* Save Changes in a dialog that the pencil next to Notes opened (isEditing is
\* set by modifyOrder only) and in which nothing but the notes was edited
NotesSaveStep ==
  /\ variant = "orders.tsx"
  /\ DialogShown
  /\ ~isEditing
  /\ \E k \in DOMAIN orders : orders[k] = selectedOrder[1]
  /\ saveModifiedOrder

\* C26: editing an order's notes (toggleEditNotes, the notes text, Save
\* Changes) changes only that order's notes: its items and its total are the
\* same before and after, whatever happened on the page before.
C26_NotesEditKeepsItems ==
  [][NotesSaveStep =>
       \A k \in DOMAIN orders :
          /\ orders'[k].items = orders[k].items
          /\ orders'[k].total = orders[k].total]_vars

\* Save Changes in a dialog that Modify opened and in which no row was removed
ItemsSaveStep ==
  /\ variant = "orders.tsx"
  /\ DialogShown
  /\ isEditing
  /\ [k \in DOMAIN editedItems |-> editedItems[k].id]
       = [k \in DOMAIN selectedOrder[1].items |-> selectedOrder[1].items[k].id]
  /\ saveModifiedOrder

\* C27: when an item's quantity or price is changed in the modify dialog
\* (updateOrderItem) and the dialog is saved (saveModifiedOrder), the
\* persisted order holds the item with the new quantity or price and a total
\* recomputed from the new values.
C27_ItemEditsAreSaved ==
  [][ItemsSaveStep =>
       \A k \in DOMAIN lsOrders' :
          lsOrders'[k].id = selectedOrder[1].id =>
            /\ lsOrders'[k].items = selectedOrder[1].items
            /\ lsOrders'[k].total
                 = NumberTotal(calculateTotal(selectedOrder[1].items))]_vars

\* ------------------------------------------------ two tabs of one browser
\* the POS page, opened just now in a second tab while this tab shows the
\* Active Orders page, places an order of one item: its confirmOrder reads
\* the slot, puts the new order in front and writes the slot
confirmOrderInOtherTab(item, customerInfo) ==
  /\ page = "orders"
  /\ lsLastOrderNumber < MaxOrderNumber
  /\ Len(lsOrders) < MaxOrders
  /\ customerInfo.firstName # "" /\ customerInfo.lastInitial # ""
  /\ ~lsOrdersMalformed
  /\ LET line == CartLine(item, <<>>)
         newOrder ==
           [id |-> lsLastOrderNumber + 1,
            customerName |-> <<customerInfo.firstName,
                               customerInfo.lastInitial>>,
            items |-> <<line>>,
            timestamp |-> now,
            status |-> "Pending",
            total |-> IF lsComplimentaryMode
                      THEN NumberTotal(0)
                      ELSE StringTotal(calculateTotal(<<line>>)),
            isComplimentary |-> lsComplimentaryMode,
            queueTime |-> 0,
            startTime |-> <<now>>,
            preparationTime |-> <<>>,
            leadInterest |-> <<>>,
            notes |-> <<>>]
     IN lsOrders' = <<newOrder>> \o lsOrders
  /\ lsLastOrderNumber' = lsLastOrderNumber + 1
  /\ UNCHANGED <<envVars, lsOrdersMalformed, lsComplimentaryMode, posVars,
                 pageVars>>

NextTabs ==
  \/ MountPos
  \/ MountOrders
  \/ \E item \in Menu1 : addFirstItem(item)
  \/ handlePlaceOrder
  \/ \E info \in CustomerInfos : confirmOrder(info)
  \/ closeModal
  \/ \E item \in Menu1, info \in CustomerInfos :
        confirmOrderInOtherTab(item, info)
  \/ \E i \in Positions : StartButton(i)
  \/ \E i \in Positions : CompleteButton(i)
  \/ \E i \in Positions, b \in BOOLEAN : LeadButton(i, b)
  \/ \E i \in Positions : ModifyButton(i)
  \/ saveModifiedOrder
  \/ CancelDialog

SpecTabs == Init /\ [][NextTabs]_vars

\* a write of the Active Orders page that removes no order
KeepingWriteStep ==
  \/ \E i \in Positions : StartButton(i) \/ CompleteButton(i)
  \/ \E i \in Positions, b \in BOOLEAN : LeadButton(i, b)
  \/ saveModifiedOrder

\* C25: every handler that writes the persisted orders slot computes what it
\* writes from the slot as read inside that handler, so an order placed
\* through confirmOrder is never dropped from the slot by a later write of the
\* Active Orders page (status, lead interest, notes, modify) made from a view
\* that was loaded before the order was placed.
C25_WritesStartFromTheSlot ==
  [][KeepingWriteStep =>
       \A k \in DOMAIN lsOrders :
          \E j \in DOMAIN lsOrders' : lsOrders'[j].id = lsOrders[k].id]_vars

\* cancel, clear-all and the ID reset over orders placed at different times
NextRenumber ==
  \/ Tick
  \/ MountPos
  \/ MountOrders
  \/ \E item \in Menu1 : addFirstItem(item)
  \/ handlePlaceOrder
  \/ \E info \in CustomerInfos : confirmOrder(info)
  \/ closeModal
  \/ \E i \in Positions, c \in BOOLEAN : CancelButton(i, c)
  \/ clearAllOrders
  \/ confirmClearAllOrders
  \/ cancelClearAllOrders
  \/ restartOrderId
  \/ confirmRestartOrderId
  \/ cancelRestartOrderId

SpecRenumber == Init /\ [][NextRenumber]_vars

\* the orders of the historical list were placed at different times, so that
\* its time of placement tells which order a record is
PlacedApart ==
  \A h, k \in DOMAIN allOrders :
     h # k => allOrders[h].timestamp # allOrders[k].timestamp

\* C28: after any sequence of cancel, clear-all and ID-reset operations,
\* every order that is in the active list and in the historical list has the
\* same id in both.
C28_SameIdInBothLists ==
  page = "orders" /\ PlacedApart =>
    \A a \in DOMAIN orders, h \in DOMAIN allOrders :
       orders[a].timestamp = allOrders[h].timestamp =>
         orders[a].id = allOrders[h].id
\* ------------------------------------------------------------ the POS cart
Flavors == {"No Flavoring", "Vanilla"}
CartMenu ==
  { [id |-> 1, name |-> "Espresso", price |-> 250, category |-> "Coffee"],
    [id |-> 11, name |-> "Croissant", price |-> 200,
     category |-> "Pastries"] }
CartPositions == 1..MaxCartQty

\* the first order of the session is confirmed
confirmFirstOrder(customerInfo) ==
  lsOrders = <<>> /\ confirmOrder(customerInfo)

NextCart ==
  \/ \E item \in CartMenu : addToCart(item)
  \/ \E flavor \in Flavors : setSelectedFlavor(flavor)
  \/ CancelFlavorSelection
  \/ confirmFlavorSelection
  \/ \E index \in CartPositions : removeFromCart(index)
  \/ \E index \in CartPositions : increaseQuantity(index)
  \/ handlePlaceOrder
  \/ \E info \in CustomerInfos : confirmFirstOrder(info)
  \/ closeModal
  \/ ToggleComplimentaryMode

SpecCart == Init /\ [][NextCart]_vars

\* C29: in every reachable POS state the running total is the sum of price
\* times quantity over the cart lines, every cart line has a quantity of at
\* least one, and no two cart lines have the same item id and flavor
C29_CartInvariants ==
  /\ runningTotal = calculateTotal(cart)
  /\ \A i \in DOMAIN cart : cart[i].quantity >= 1
  /\ \A i, j \in DOMAIN cart :
       (cart[i].id = cart[j].id /\ cart[i].flavor = cart[j].flavor) => i = j

\* after an order was confirmed, a flavored coffee and the same coffee
\* without flavoring are two lines of the new cart
C29_Witness ==
  /\ Len(cart) = 2
  /\ cart[1].id = cart[2].id
  /\ cart[1].flavor = <<"Vanilla">>
  /\ cart[2].flavor = <<>>
  /\ orderNumber > 1
  /\ runningTotal = 500
\* ------------------------------------------- what the Orders page persists
\* updateOrderNotes called for an order card of the orders.tsx copy
NotesCall(i, text) ==
  /\ variant = "orders.tsx"
  /\ Shown(i)
  /\ updateOrderNotes(orders[i].id, text)

NextWrites ==
  \/ MountPos
  \/ MountOrders
  \/ \E item \in Menu1 : addFirstItem(item)
  \/ handlePlaceOrder
  \/ \E info \in CustomerInfos : confirmOrder(info)
  \/ closeModal
  \/ \E i \in Positions : StartButton(i)
  \/ \E i \in Positions : CompleteButton(i)
  \/ \E i \in Positions, b \in BOOLEAN : LeadButton(i, b)
  \/ \E i \in Positions, text \in NoteTexts : NotesCall(i, text)
  \/ \E i \in Positions : ModifyButton(i)
  \/ saveModifiedOrder
  \/ \E i \in Positions, c \in BOOLEAN : CancelButton(i, c)
  \/ clearAllOrders
  \/ confirmClearAllOrders
  \/ restartOrderId
  \/ confirmRestartOrderId

SpecWrites == Init /\ [][NextWrites]_vars

\* a handler of the Orders page that writes the orders slot has run
SlotWriteStep ==
  \/ \E i \in Positions : StartButton(i)
  \/ \E i \in Positions : CompleteButton(i)
  \/ \E i \in Positions, b \in BOOLEAN : LeadButton(i, b)
  \/ \E i \in Positions, text \in NoteTexts : NotesCall(i, text)
  \/ saveModifiedOrder
  \/ \E i \in Positions : CancelButton(i, TRUE)
  \/ confirmClearAllOrders
  \/ confirmRestartOrderId

\* C30: after every Orders-page operation that writes storage
\* (updateOrderStatus, recordLeadInterest, updateOrderNotes,
\* saveModifiedOrder, cancelOrder, confirmClearAllOrders,
\* confirmRestartOrderId) the persisted orders slot holds exactly the
\* in-memory active list, whatever the historical list holds
C30_SlotHoldsActiveList ==
  [][ SlotWriteStep => (lsOrders' = orders' /\ ~lsOrdersMalformed') ]_vars

\* an order was started and the other one cancelled: the historical list
\* keeps the cancelled order, the slot holds the active list without it
C30_Witness ==
  /\ page = "orders"
  /\ Len(orders) = 1
  /\ orders[1].status = "In Progress"
  /\ Len(allOrders) = 2
  /\ \E k \in DOMAIN allOrders : allOrders[k].status = "Cancelled"
  /\ lsOrders = orders
  /\ lsOrders # allOrders
====
